---- MODULE Spec2Model ----
(***************************************************************************)
(* Analytic cache and aggregation engine of the quality backend            *)
(* (src/index.js): the unit cache and its refreshes, the request handlers  *)
(* that read it, and the live aggregation getQuantumData.                  *)
(*                                                                         *)
(* JavaScript runs every stretch of code between two awaits to completion, *)
(* so each action below is one such stretch.                               *)
(***************************************************************************)
EXTENDS Integers, Sequences, FiniteSets, TLC

(***************************************************************************)
(* Bounds of the model.                                                    *)
(***************************************************************************)
\* how many of the six fixed units are modelled (the first NumUnits)
NumUnits == 2
\* how many refreshes are started in one behaviour, the startup one included
MaxRefreshes == 2
\* how many rows a unit's sheet holds at most in the aggregation runs
MaxRows == 2

(***************************************************************************)
(* JavaScript values.  A value whose type varies is tagged, so that a      *)
(* number never equals a string.                                           *)
(***************************************************************************)
JsNull == <<"null">>
JsNum(n) == <<"number", n>>
JsStr(s) == <<"string", s>>
\* an absent query parameter (undefined); like "" it is falsy
Absent == ""

\* round(a / b) for a >= 0, b > 0, halves up
RoundDiv(a, b) == (2 * a + b) \div (2 * b)

\* (num / den * scale).toFixed(2): the decimal string with two fraction
\* digits, held as the number of hundredths it denotes
toFixed2(num, den, scale) == <<"fixed2", RoundDiv(num * scale * 100, den)>>

\* String(v) of a tagged number or string; numbers print in decimal
Digits == <<"0", "1", "2", "3", "4", "5", "6", "7", "8", "9">>
RECURSIVE Decimal(_)
Decimal(n) == IF n < 10 THEN Digits[n + 1] ELSE Decimal(n \div 10) \o Digits[(n % 10) + 1]
String(v) == IF v[1] = "number" THEN Decimal(v[2]) ELSE IF v[1] = "string" THEN v[2] ELSE "null"

\* truthiness of a tagged value
Truthy(v) == \/ v[1] = "number" /\ v[2] # 0
             \/ v[1] = "string" /\ v[2] # ""

(***************************************************************************)
(* The fixed units and canonical column lists.                             *)
(***************************************************************************)
AllUnits == <<"U-1", "U-2", "U-3", "U-4", "U-5", "U-6">>
UnitList == SubSeq(AllUnits, 1, NumUnits)
Units == {UnitList[i] : i \in 1..NumUnits}

alarmColumns == <<"NSABlks", "LABlks", "TABlks", "CABlks", "CCABlks", "FABlks",
                  "PPABlks", "PFABlks", "CVpABlks", "HpABlks", "CMTABlks">>
cutColumns == <<"YarnFaults", "YarnJoints", "YarnBreaks", "NCuts", "SCuts", "LCuts",
                "TCuts", "FDCuts", "PPCuts">>
qualityColumns == <<"Thin50", "Thick50", "Nep200", "CVAvg", "HAvg", "IPI", "HSIPI">>

Range(s) == {s[i] : i \in 1..Len(s)}

(***************************************************************************)
(* Rows.  A row is a record whose fields are the columns the sheet has for *)
(* it; numeric cells are integers, name cells are strings.                 *)
(***************************************************************************)
\* k.toLowerCase() for the column spellings that occur
LowerOf == [k \in Range(alarmColumns) \cup Range(cutColumns) \cup Range(qualityColumns) |->
              CASE k = "NSABlks" -> "nsablks" [] k = "LABlks" -> "lablks"
                [] k = "TABlks" -> "tablks" [] k = "CABlks" -> "cablks"
                [] k = "CCABlks" -> "ccablks" [] k = "FABlks" -> "fablks"
                [] k = "PPABlks" -> "ppablks" [] k = "PFABlks" -> "pfablks"
                [] k = "CVpABlks" -> "cvpablks" [] k = "HpABlks" -> "hpablks"
                [] k = "CMTABlks" -> "cmtablks"
                [] k = "YarnFaults" -> "yarnfaults" [] k = "YarnJoints" -> "yarnjoints"
                [] k = "YarnBreaks" -> "yarnbreaks" [] k = "NCuts" -> "ncuts"
                [] k = "SCuts" -> "scuts" [] k = "LCuts" -> "lcuts"
                [] k = "TCuts" -> "tcuts" [] k = "FDCuts" -> "fdcuts"
                [] k = "PPCuts" -> "ppcuts"
                [] k = "Thin50" -> "thin50" [] k = "Thick50" -> "thick50"
                [] k = "Nep200" -> "nep200" [] k = "CVAvg" -> "cvavg"
                [] k = "HAvg" -> "havg" [] k = "IPI" -> "ipi" [] k = "HSIPI" -> "hsipi"]
toLowerCase(k) == IF k \in DOMAIN LowerOf THEN LowerOf[k] ELSE k

\* Number(item.a || item.b || ...) || 0 over numeric cells: the first cell
\* of `keys` that is present and not 0, else 0
RECURSIVE NumOr(_, _)
NumOr(item, keys) ==
  IF keys = <<>> THEN 0
  ELSE IF Head(keys) \in DOMAIN item /\ item[Head(keys)] # 0 THEN item[Head(keys)]
  ELSE NumOr(item, Tail(keys))

\* item.a || item.b || ... || dflt over name cells
RECURSIVE StrOr(_, _, _)
StrOr(item, keys, dflt) ==
  IF keys = <<>> THEN dflt
  ELSE IF Head(keys) \in DOMAIN item /\ item[Head(keys)] # "" THEN item[Head(keys)]
  ELSE StrOr(item, Tail(keys), dflt)

\* Number(curr[Object.keys(curr).find(k => k.toLowerCase() === col.toLowerCase()) || col]) || 0
NumCI(curr, col) ==
  LET ks == {k \in DOMAIN curr : toLowerCase(k) = toLowerCase(col)}
  IN IF ks = {} THEN 0 ELSE curr[CHOOSE k \in ks : TRUE]

(***************************************************************************)
(* Dates.  A date cell holding a time of day d on calendar day n is the    *)
(* integer 2 * n + d, d in {0, 1}; InvalidDate is a cell new Date() cannot *)
(* read.  formatDateToYYYYMMDD names the calendar day.                     *)
(***************************************************************************)
DayNames == <<"2024-01-01", "2024-01-02", "2024-01-03">>
InvalidDate == -1
NoDate == "no-date"

\* formatDateToYYYYMMDD(new Date(dateVal)); NoDate stands for null
formatDateToYYYYMMDD(dateVal) ==
  IF dateVal < 2 \/ dateVal > 2 * Len(DayNames) + 1 THEN NoDate
  ELSE DayNames[dateVal \div 2]

\* item.ShiftStartTime || item.shiftstarttime || item.Date
dateKeys == <<"ShiftStartTime", "shiftstarttime", "Date">>
HasDateVal(item) == \E i \in 1..Len(dateKeys) : dateKeys[i] \in DOMAIN item
RECURSIVE FirstDate(_, _)
FirstDate(item, keys) ==
  IF Head(keys) \in DOMAIN item THEN item[Head(keys)] ELSE FirstDate(item, Tail(keys))
\* the row's date string, NoDate when the row has no readable date
itemDateStr(item) ==
  IF HasDateVal(item) THEN formatDateToYYYYMMDD(FirstDate(item, dateKeys)) ELSE NoDate

shiftKeys == <<"ShiftNumber", "Shift", "shiftnumber", "shift">>
machineKeys == <<"MachineName", "machinename", "Machine", "machine">>

\* String(item.ShiftNumber || item.Shift || ...): shift cells are numbers
rowShiftStr(item) ==
  LET n == NumOr(item, shiftKeys) IN IF n = 0 THEN "undefined" ELSE Decimal(n)
\* String(item.MachineName || item.machinename || ...)
rowMachStr(item) == StrOr(item, machineKeys, "undefined")
\* Number(item.YarnLength || item.yarnlength) || 0
yarnLengthOf(item) == NumOr(item, <<"YarnLength", "yarnlength">>)

RECURSIVE Flatten(_)
Flatten(ss) == IF ss = <<>> THEN <<>> ELSE Head(ss) \o Flatten(Tail(ss))

RECURSIVE SumSeq(_)
SumSeq(s) == IF s = <<>> THEN 0 ELSE Head(s) + SumSeq(Tail(s))

SetMax(S) == CHOOSE x \in S : \A y \in S : y <= x

(***************************************************************************)
(* getQuantumData, lines 233-280: the units of the call and the defaulting *)
(* of the target date and shift.  `cache` is cachedUnitsData as the call   *)
(* reads it.                                                               *)
(***************************************************************************)
\* line 234
unitsOf(unitFilter) == IF unitFilter # Absent THEN <<unitFilter>> ELSE UnitList

\* cachedUnitsData[unit] || []
RowsOf(cache, unit) == IF unit \in DOMAIN cache THEN cache[unit] ELSE <<>>

\* lines 242-245
allRecordsOf(cache, units) == Flatten([i \in 1..Len(units) |-> RowsOf(cache, units[i])])

\* lines 248-253: the distinct row dates, latest first
availableDates(allRecords) ==
  LET present == {itemDateStr(allRecords[i]) : i \in 1..Len(allRecords)} \ {NoDate}
      desc == [i \in 1..Len(DayNames) |-> DayNames[Len(DayNames) + 1 - i]]
  IN SelectSeq(desc, LAMBDA d : d \in present)

\* defaultDate without the dashboard's choice of the day before
defaultDateLatest(dates, isDashboard) == dates[1]

\* line 257
defaultDate(dates, isDashboard) ==
  IF isDashboard THEN (IF Len(dates) >= 2 THEN dates[2] ELSE dates[1]) ELSE dates[1]

\* lines 261-268: the truthy shift values of the rows dated targetDateStr
shiftsForDate(allRecords, targetDateStr) ==
  {NumOr(allRecords[i], shiftKeys) :
     i \in {j \in 1..Len(allRecords) : itemDateStr(allRecords[j]) = targetDateStr}} \ {0}

\* line 270
latestShiftForDate(allRecords, targetDateStr) ==
  LET shifts == shiftsForDate(allRecords, targetDateStr)
  IN IF shifts = {} THEN JsStr("All") ELSE JsNum(SetMax(shifts))

\* initialTargetShift taking "all" for a shift value like any other
initialTargetShiftLiteral(shiftFilter) ==
  IF shiftFilter = Absent THEN JsNull ELSE JsStr(shiftFilter)

\* line 238
initialTargetShift(shiftFilter) ==
  IF shiftFilter = "all" \/ shiftFilter = Absent THEN JsNull ELSE JsStr(shiftFilter)

\* line 241: whether the defaults are looked up at all
needsDefaults(dateFilter, shiftFilter) ==
  dateFilter = Absent \/ (~Truthy(initialTargetShift(shiftFilter)) /\ shiftFilter # "all")

\* lines 237-280: [targetDateStr, targetShift, targetLatestShift]
resolveTargets(cache, dateFilter, shiftFilter, unitFilter, isDashboard) ==
  LET allRecords == allRecordsOf(cache, unitsOf(unitFilter))
      dates == availableDates(allRecords)
      shift0 == initialTargetShift(shiftFilter)
      untouched == [targetDateStr |-> dateFilter, targetShift |-> shift0,
                    targetLatestShift |-> JsStr("All")]
  IN IF ~needsDefaults(dateFilter, shiftFilter) \/ allRecords = <<>> THEN untouched
     ELSE LET date == IF dateFilter = Absent /\ dates # <<>>
                      THEN defaultDate(dates, isDashboard) ELSE dateFilter
          IN IF date = Absent THEN untouched
             ELSE LET latest == latestShiftForDate(allRecords, date)
                  IN [targetDateStr |-> date,
                      targetShift |-> IF ~Truthy(shift0) /\ shiftFilter # "all"
                                      THEN latest ELSE shift0,
                      targetLatestShift |-> latest]

\* lines 290-313: whether a row of the unit enters its aggregate
passesFilter(item, targetDateStr, targetShift, machineFilter) ==
  /\ HasDateVal(item)
  /\ itemDateStr(item) # NoDate
  /\ targetDateStr # Absent => itemDateStr(item) = targetDateStr
  /\ Truthy(targetShift) => rowShiftStr(item) = String(targetShift)
  /\ machineFilter # Absent => rowMachStr(item) = machineFilter
  /\ yarnLengthOf(item) >= 300

recordsOf(jsonData, targetDateStr, targetShift, machineFilter) ==
  SelectSeq(jsonData, LAMBDA item : passesFilter(item, targetDateStr, targetShift, machineFilter))

(***************************************************************************)
(* getQuantumData, lines 315-573: the aggregate of one unit.               *)
(***************************************************************************)
\* the value a row contributes to a quality column (lines 383-391)
qualityVal(curr, col) ==
  IF col = "IPI"
  THEN NumOr(curr, <<"Thin50", "thin50">>) + NumOr(curr, <<"Thick50", "thick50">>)
         + NumOr(curr, <<"Nep200", "nep200">>)
  ELSE IF col = "HSIPI"
  THEN NumOr(curr, <<"Thin40", "thin40">>) + NumOr(curr, <<"Thick35", "thick35">>)
         + NumOr(curr, <<"Nep140", "nep140">>)
  ELSE NumCI(curr, col)

\* Number(curr.IPRefLength || curr.ipreflength || curr.RefLength || 0) || 0
ipRefLengthOf(curr) == NumOr(curr, <<"IPRefLength", "ipreflength", "RefLength">>)

\* the accumulators an article or a machine starts with (lines 404-415, 448-458)
zeroAcc ==
  [yarnLength |-> 0,
   cuts |-> [c \in Range(cutColumns) |-> 0],
   quality |-> [c \in Range(qualityColumns) |-> [sum |-> 0, count |-> 0, refLength |-> 0]],
   totalAlarms |-> 0,
   alarmBreakdown |-> [c \in Range(alarmColumns) |-> 0]]

\* one row added to the accumulators (lines 418-445, 461-487)
accumulate(acc, curr) ==
  [yarnLength |-> acc.yarnLength + yarnLengthOf(curr),
   cuts |-> [c \in Range(cutColumns) |-> acc.cuts[c] + NumCI(curr, c)],
   quality |-> [c \in Range(qualityColumns) |->
                  [sum |-> acc.quality[c].sum + qualityVal(curr, c),
                   count |-> acc.quality[c].count + 1,
                   refLength |-> acc.quality[c].refLength + ipRefLengthOf(curr)]],
   totalAlarms |-> acc.totalAlarms + SumSeq([i \in 1..Len(alarmColumns) |-> NumCI(curr, alarmColumns[i])]),
   alarmBreakdown |-> [c \in Range(alarmColumns) |-> acc.alarmBreakdown[c] + NumCI(curr, c)]]

\* position of the entry named `name` in a list of entries, 0 when none
IndexOfName(entries, name) ==
  IF \E i \in 1..Len(entries) : entries[i].name = name
  THEN CHOOSE i \in 1..Len(entries) : entries[i].name = name ELSE 0

\* addTo starting a new entry from zero, its first row left out
addToEmptyEntry(entries, name, curr) ==
  LET i == IndexOfName(entries, name)
  IN IF i = 0 THEN Append(entries, [name |-> name, acc |-> zeroAcc])
     ELSE [entries EXCEPT ![i].acc = accumulate(@, curr)]

\* an entry list with the row added to the entry `name`, created at the end
\* of the list when the name is new (insertion order of the object's keys)
addTo(entries, name, curr) ==
  LET i == IndexOfName(entries, name)
  IN IF i = 0 THEN Append(entries, [name |-> name, acc |-> accumulate(zeroAcc, curr)])
     ELSE [entries EXCEPT ![i].acc = accumulate(@, curr)]

\* lines 400-401
artNumOf(curr) == StrOr(curr, <<"ArticleNumber", "articlenumber">>, "Unknown")
machNameOf(curr) == StrOr(curr, machineKeys, "Unknown")

\* lines 399-488: the articles of the filtered rows, each with its
\* accumulators and its machines
RECURSIVE articleMapOf(_)
articleMapOf(records) ==
  IF records = <<>> THEN <<>>
  ELSE LET before == articleMapOf(SubSeq(records, 1, Len(records) - 1))
           curr == records[Len(records)]
           artNum == artNumOf(curr)
           i == IndexOfName(before, artNum)
       IN IF i = 0
          THEN Append(before, [name |-> artNum, acc |-> accumulate(zeroAcc, curr),
                               machines |-> addTo(<<>>, machNameOf(curr), curr)])
          ELSE [before EXCEPT ![i].acc = accumulate(@, curr),
                              ![i].machines = addTo(@, machNameOf(curr), curr)]

\* lines 353-396: the unit's own sums over the filtered rows
RECURSIVE unitAccOf(_)
unitAccOf(records) ==
  IF records = <<>> THEN zeroAcc
  ELSE accumulate(unitAccOf(SubSeq(records, 1, Len(records) - 1)), records[Len(records)])

\* lines 493-495, 509-511, 543-546
cutsPer100kmOf(cuts, yarnLength) ==
  [c \in Range(cutColumns) |->
     IF yarnLength > 0 THEN toFixed2(cuts[c], yarnLength, 100) ELSE toFixed2(0, 1, 1)]

\* lines 498-505, 514-521, 549-556
qualityValsOf(quality) ==
  [c \in Range(qualityColumns) |->
     IF c = "CVAvg" \/ c = "HAvg"
     THEN (IF quality[c].count > 0 THEN toFixed2(quality[c].sum, quality[c].count, 1)
           ELSE toFixed2(0, 1, 1))
     ELSE (IF quality[c].refLength > 0 THEN toFixed2(quality[c].sum, quality[c].refLength, 1)
           ELSE toFixed2(0, 1, 1))]

\* lines 507-530
machineOut(mach) ==
  [machineName |-> mach.name,
   cuts |-> cutsPer100kmOf(mach.acc.cuts, mach.acc.yarnLength),
   quality |-> qualityValsOf(mach.acc.quality),
   totalAlarms |-> mach.acc.totalAlarms,
   alarmBreakdown |-> mach.acc.alarmBreakdown]

\* lines 491-540
articleOut(art) ==
  [articleNumber |-> art.name,
   cuts |-> cutsPer100kmOf(art.acc.cuts, art.acc.yarnLength),
   quality |-> qualityValsOf(art.acc.quality),
   totalAlarms |-> art.acc.totalAlarms,
   alarmBreakdown |-> art.acc.alarmBreakdown,
   machines |-> [i \in 1..Len(art.machines) |-> machineOut(art.machines[i])]]

\* line 287
emptyUnitOut(unit) ==
  [unit |-> unit, yarnFaults |-> JsStr("N/A"), shiftStartTime |-> JsNull,
   articles |-> <<>>, latestShift |-> JsStr("All")]

\* the fault rate of the unit (lines 315, 345-351)
avgYarnFaultsOf(records) ==
  LET totalFaults == SumSeq([i \in 1..Len(records) |-> NumOr(records[i], <<"YarnFaults", "yarnfaults">>)])
      totalLength == SumSeq([i \in 1..Len(records) |-> yarnLengthOf(records[i])])
  IN IF records # <<>> /\ totalLength > 0 THEN toFixed2(totalFaults, totalLength, 100)
     ELSE JsNum(0)

\* lines 283-573 for one unit
unitOut(cache, unit, t, machineFilter) ==
  LET jsonData == RowsOf(cache, unit)
      records == recordsOf(jsonData, t.targetDateStr, t.targetShift, machineFilter)
      acc == unitAccOf(records)
      totalLength == SumSeq([i \in 1..Len(records) |-> yarnLengthOf(records[i])])
      totalCuts == SumSeq([i \in 1..Len(records) |->
                             NumOr(records[i], <<"Cuts", "cuts", "TotalCuts", "totalcuts">>)])
      rated == records # <<>> /\ totalLength > 0
  IN IF jsonData = <<>> THEN emptyUnitOut(unit)
     ELSE [unit |-> unit,
           yarnFaults |-> avgYarnFaultsOf(records),
           totalAlarms |-> acc.totalAlarms,
           alarmsPer1000km |-> IF rated THEN toFixed2(acc.totalAlarms, totalLength, 1000) ELSE JsNum(0),
           alarmBreakdown |-> acc.alarmBreakdown,
           totalCuts |-> totalCuts,
           cutsPer100km |-> IF rated THEN toFixed2(totalCuts, totalLength, 100) ELSE JsNum(0),
           unitCuts |-> cutsPer100kmOf(acc.cuts, totalLength),
           unitQuality |-> qualityValsOf(acc.quality),
           shiftStartTime |-> IF t.targetDateStr = Absent THEN JsNull ELSE JsStr(t.targetDateStr),
           shiftNumber |-> IF Truthy(t.targetShift) THEN t.targetShift ELSE JsStr("All"),
           latestShift |-> t.targetLatestShift,
           articles |-> LET arts == articleMapOf(records)
                        IN [i \in 1..Len(arts) |-> articleOut(arts[i])]]

\* getQuantumData(dateFilter, shiftFilter, unitFilter, machineFilter, isDashboard)
\* reading `cache`
getQuantumData(cache, dateFilter, shiftFilter, unitFilter, machineFilter, isDashboard) ==
  LET units == unitsOf(unitFilter)
      t == resolveTargets(cache, dateFilter, shiftFilter, unitFilter, isDashboard)
  IN [i \in 1..Len(units) |-> unitOut(cache, units[i], t, machineFilter)]

(***************************************************************************)
(* The available-filters and trend computations.                           *)
(***************************************************************************)
\* lines 616-621: Object.values(cachedUnitsData).flat(), in unit order
filterRecordsOf(cache, unit) ==
  IF unit # Absent /\ unit \in DOMAIN cache THEN cache[unit]
  ELSE Flatten([i \in 1..Len(AllUnits) |-> RowsOf(cache, AllUnits[i])])

\* lines 625-640; a sorted list of distinct values is held as their set
availableFilters(cache, unit) ==
  LET allRecords == filterRecordsOf(cache, unit)
      idx == 1..Len(allRecords)
  IN [dates |-> availableDates(allRecords),
      shifts |-> {NumOr(allRecords[i], shiftKeys) : i \in idx} \ {0},
      units |-> AllUnits,
      machines |-> {StrOr(allRecords[i], machineKeys, "") : i \in idx} \ {""},
      articles |-> {StrOr(allRecords[i], <<"ArticleNumber", "articlenumber">>, "") : i \in idx} \ {""},
      articleNames |-> {StrOr(allRecords[i], <<"ArticleName", "articlename", "Article", "article">>, "") : i \in idx} \ {""},
      lotIds |-> {StrOr(allRecords[i], <<"LotID", "lotid", "LotId">>, "") : i \in idx} \ {""}]

\* lines 711-716
trendLabel(firstColumn, unit, item) ==
  IF firstColumn = "unit" THEN unit
  ELSE IF firstColumn = "articlename"
  THEN StrOr(item, <<"ArticleName", "articlename", "Article", "article">>, "Unknown")
  ELSE IF firstColumn = "articlenumber" THEN StrOr(item, <<"ArticleNumber", "articlenumber">>, "Unknown")
  ELSE IF firstColumn = "lotid" THEN StrOr(item, <<"LotID", "lotid", "LotId">>, "Unknown")
  ELSE IF firstColumn = "machinename" THEN StrOr(item, machineKeys, "Unknown")
  ELSE "Unknown"

\* lines 724-746
trendVal(parameter, item) ==
  IF parameter = "IPI" \/ parameter = "HSIPI" THEN qualityVal(item, parameter)
  ELSE IF parameter = "totalAlarms"
  THEN SumSeq([i \in 1..Len(alarmColumns) |-> NumCI(item, alarmColumns[i])])
  ELSE NumCI(item, parameter)

\* lines 697-752: what each counted row adds, in cache order
trendRowsOfUnit(rows, unit, q) ==
  LET kept == SelectSeq(rows, LAMBDA item : itemDateStr(item) # NoDate)
  IN [i \in 1..Len(kept) |->
        [date |-> itemDateStr(kept[i]),
         label |-> trendLabel(q.firstColumn, unit, kept[i]),
         machine |-> StrOr(kept[i], machineKeys, "Unknown"),
         val |-> trendVal(q.parameter, kept[i]),
         refLength |-> ipRefLengthOf(kept[i]),
         yarnLength |-> yarnLengthOf(kept[i])]]

trendRows(cache, q) ==
  Flatten([i \in 1..Len(AllUnits) |->
             IF AllUnits[i] \notin DOMAIN cache \/ (q.unit # Absent /\ AllUnits[i] # q.unit)
             THEN <<>> ELSE trendRowsOfUnit(cache[AllUnits[i]], AllUnits[i], q)])

\* lines 753-769: the accumulator of the rows of one bucket
trendStats(mine) ==
     [sum |-> SumSeq([i \in 1..Len(mine) |-> mine[i].val]),
      refLength |-> SumSeq([i \in 1..Len(mine) |-> mine[i].refLength]),
      yarnLength |-> SumSeq([i \in 1..Len(mine) |-> mine[i].yarnLength]),
      count |-> Len(mine)]

\* lines 781-797
calculateFinal(s, group, parameter) ==
  IF group = "quality"
  THEN (IF parameter = "CVAvg" \/ parameter = "HAvg"
        THEN (IF s.count > 0 THEN toFixed2(s.sum, s.count, 1) ELSE toFixed2(0, 1, 1))
        ELSE (IF s.refLength > 0 THEN toFixed2(s.sum, s.refLength, 1) ELSE toFixed2(0, 1, 1)))
  ELSE IF group = "cuts" \/ group = "cmt"
  THEN (IF s.yarnLength > 0 THEN toFixed2(s.sum, s.yarnLength, 100) ELSE toFixed2(0, 1, 1))
  ELSE JsNum(s.sum)

\* drillFinal reporting the bare sum whatever the group
drillFinalSum(s, group, parameter) == JsNum(s.sum)

\* lines 823-837
drillFinal(s, group, parameter) ==
  IF group = "quality"
  THEN (IF parameter = "CVAvg" \/ parameter = "HAvg"
        THEN (IF s.count > 0 THEN toFixed2(s.sum, s.count, 1) ELSE toFixed2(0, 1, 1))
        ELSE (IF s.refLength > 0 THEN toFixed2(s.sum, s.refLength, 1) ELSE toFixed2(0, 1, 1)))
  ELSE IF group = "cuts" \/ group = "cmt"
  THEN (IF s.yarnLength > 0 THEN toFixed2(s.sum, s.yarnLength, 100) ELSE toFixed2(0, 1, 1))
  ELSE JsNum(s.sum)

\* lines 693-856: the trend response; sorted lists of distinct names are
\* held as sets, and an undefined value as JsNull
trendOf(cache, q) ==
  LET rows == trendRows(cache, q)
      idx == 1..Len(rows)
      dateSet == {rows[i].date : i \in idx}
      sortedDates == SelectSeq(DayNames, LAMBDA d : d \in dateSet)
      labels == {rows[i].label : i \in idx}
      labelsOn(d) == {rows[i].label : i \in {j \in idx : rows[j].date = d}}
      machinesOn(d, l) == {rows[i].machine : i \in {j \in idx : rows[j].date = d /\ rows[j].label = l}}
      machinesOf(l) == {rows[i].machine : i \in {j \in idx : rows[j].label = l}}
      stats(d, l) == trendStats(SelectSeq(rows, LAMBDA r : r.date = d /\ r.label = l))
      mstats(d, l, m) ==
        trendStats(SelectSeq(rows, LAMBDA r : r.date = d /\ r.label = l /\ r.machine = m))
  IN [data |-> [k \in 1..Len(sortedDates) |->
                  LET d == sortedDates[k]
                  IN [date |-> d,
                      values |-> [l \in labelsOn(d) |-> calculateFinal(stats(d, l), q.group, q.parameter)],
                      machines |-> [l \in labelsOn(d) |->
                                      [m \in machinesOn(d, l) |->
                                         calculateFinal(mstats(d, l, m), q.group, q.parameter)]]]],
      labels |-> labels,
      dates |-> sortedDates,
      drillDownData |->
        [l \in labels |->
           [labels |-> machinesOf(l),
            data |-> [k \in 1..Len(sortedDates) |->
                        LET d == sortedDates[k]
                        IN [date |-> d,
                            values |-> [m \in machinesOf(l) |->
                                          IF m \in machinesOn(d, l)
                                          THEN drillFinal(mstats(d, l, m), q.group, q.parameter)
                                          ELSE JsNull]]]]]]

(***************************************************************************)
(* The rows the sheets can hold and the queries that can arrive.           *)
(***************************************************************************)
RowPool ==
  << [ShiftStartTime |-> 2, ShiftNumber |-> 1, MachineName |-> "M1", ArticleNumber |-> "A1",
      YarnLength |-> 1000, YarnFaults |-> 5, Cuts |-> 4, NSABlks |-> 2,
      Thin50 |-> 3, CVAvg |-> 12, IPRefLength |-> 10],
     [ShiftStartTime |-> 3, ShiftNumber |-> 2, MachineName |-> "M2", ArticleNumber |-> "A1",
      YarnLength |-> 500, NCuts |-> 3, LABlks |-> 1, Nep200 |-> 4, RefLength |-> 5],
     [Date |-> 4, Shift |-> 1, machinename |-> "M1", articlenumber |-> "A2",
      yarnlength |-> 400, yarnfaults |-> 2, cuts |-> 1, nsablks |-> 1, Thin40 |-> 2],
     [ShiftStartTime |-> 5, ShiftNumber |-> 2, MachineName |-> "M1", ArticleNumber |-> "A1",
      YarnLength |-> 100, YarnFaults |-> 7, Cuts |-> 9, NSABlks |-> 3],
     [ShiftStartTime |-> 6, ShiftNumber |-> 3, MachineName |-> "M2",
      YarnLength |-> 200, YarnFaults |-> 1],
     [ShiftStartTime |-> InvalidDate, ShiftNumber |-> 1, MachineName |-> "M1",
      ArticleNumber |-> "A2", YarnLength |-> 900, YarnFaults |-> 3],
     [ShiftStartTime |-> 3, ShiftNumber |-> 1, MachineName |-> "M2", ArticleNumber |-> "A2",
      YarnLength |-> 600, YarnFaults |-> 1, SCuts |-> 2, NSABlks |-> 1, CVAvg |-> 8,
      IPRefLength |-> 4] >>

\* the sheets a download can yield while the service runs
Sheets == {<<RowPool[1]>>, <<RowPool[1], RowPool[3], RowPool[4]>>}

\* what one download can come to: a sheet's rows, or an error
Loads == {[ok |-> FALSE, rows |-> <<>>]} \cup {[ok |-> TRUE, rows |-> sheet] : sheet \in Sheets}

\* an absent query of the live route
noQuery == [date |-> Absent, shift |-> Absent, unit |-> Absent, machine |-> Absent, mode |-> Absent]
\* the live queries of the cache runs
LiveQueries == {noQuery, [noQuery EXCEPT !.unit = "U-1"], [noQuery EXCEPT !.mode = "home"]}
FilterQueries == {[unit |-> Absent]}
TrendQueries ==
  {[group |-> "cuts", firstColumn |-> "unit", parameter |-> "YarnFaults", unit |-> Absent],
   [group |-> "cuts", firstColumn |-> Absent, parameter |-> "YarnFaults", unit |-> Absent]}

(***************************************************************************)
(* State.                                                                  *)
(***************************************************************************)
VARIABLES
  cachedUnitsData,  \* line 205: unit -> rows; the empty function is {}
  cachedLiveData,   \* line 206: <<>> is null, <<r>> holds the default view r
  lastFetchTime,    \* line 207: 0 is null, n the time of the n-th store
  refreshes,        \* the runs of fetchAllUnitsData, one per slot, in start order
  response,         \* the response the last step sent, <<>> when it sent none
  published         \* the composite snapshot line 230 assigned last

vars == <<cachedUnitsData, cachedLiveData, lastFetchTime, refreshes, response, published>>

None == <<>>
Some(v) == <<v>>

RefreshIds == 1..MaxRefreshes

\* a slot no refresh has used yet
unusedRefresh ==
  [pc |-> "unused", via |-> "none", pending |-> {}, failed |-> {},
   newData |-> <<>>, results |-> None, waiter |-> None]

\* a refresh that has run to its end with no handler awaiting it
doneRefresh == [unusedRefresh EXCEPT !.pc = "done"]

\* whether a cache holds no rows at all
holdsNoRows(cache) == \A u \in DOMAIN cache : cache[u] = <<>>

\* lines 209-217 run up to the first await: newData = {} and the six
\* downloads under way.  `via` tells whether updateQuantumLiveData made the
\* call, `waiter` which handler awaits it.
startedRefresh(via, waiter) ==
  [unusedRefresh EXCEPT !.pc = "loading", !.via = via, !.pending = Units, !.waiter = waiter]

\* the handler of `route`, called with query q, about to await a refresh
handlerOf(route, q) ==
  Some([route |-> route, query |-> q, emptyOnArrival |-> holdsNoRows(cachedUnitsData)])

\* the slot the next refresh takes, MaxRefreshes + 1 when none is left
nextRefresh == Cardinality({f \in RefreshIds : refreshes[f].pc # "unused"}) + 1

\* the record of a response: what was sent, and what its handler met and
\* read of the unit cache
sent(route, q, status, body, reads, emptyOnArrival, refreshed, allFailed) ==
  Some([route |-> route, query |-> q, status |-> status, body |-> body,
        reads |-> reads,
        seen |-> IF reads THEN cachedUnitsData ELSE <<>>,
        seenPublished |-> IF reads THEN published ELSE <<>>,
        emptyOnArrival |-> emptyOnArrival,
        refreshed |-> refreshed,
        allFailed |-> allFailed])

\* a response sent in the run the request arrived in
sentAtOnce(route, q, status, body, reads) ==
  sent(route, q, status, body, reads, holdsNoRows(cachedUnitsData), FALSE, FALSE)

\* a response sent after the refresh in slot f was awaited
sentAfter(f, status, body, reads) ==
  sent(refreshes[f].waiter[1].route, refreshes[f].waiter[1].query, status, body, reads,
       refreshes[f].waiter[1].emptyOnArrival, TRUE, refreshes[f].failed = Units)

\* lines 205-207 and 590: the module's top level has run, so the startup
\* refresh is loading
Init ==
  /\ cachedUnitsData = <<>>
  /\ cachedLiveData = None
  /\ lastFetchTime = 0
  /\ published = <<>>
  /\ response = None
  /\ refreshes = [f \in RefreshIds |->
                    IF f = 1 THEN [unusedRefresh EXCEPT !.pc = "loading", !.via = "update",
                                                        !.pending = Units]
                    ELSE unusedRefresh]

(***************************************************************************)
(* Refreshes.                                                              *)
(***************************************************************************)
\* line 591: the interval timer calls updateQuantumLiveData
TimerTick ==
  /\ nextRefresh <= MaxRefreshes
  /\ refreshes' = [refreshes EXCEPT ![nextRefresh] = startedRefresh("update", None)]
  /\ response' = None
  /\ UNCHANGED <<cachedUnitsData, cachedLiveData, lastFetchTime, published>>

\* LoadComplete storing the unit's rows straight into the shared cache
LoadCompleteInPlace(f, unit, load) ==
  /\ refreshes[f].pc = "loading"
  /\ unit \in refreshes[f].pending
  /\ refreshes' = [refreshes EXCEPT
                     ![f].pending = @ \ {unit},
                     ![f].failed = IF load.ok THEN @ ELSE @ \cup {unit},
                     ![f].newData = @ @@ (unit :> IF load.ok THEN load.rows
                                                  ELSE RowsOf(cachedUnitsData, unit))]
  /\ cachedUnitsData' = (unit :> IF load.ok THEN load.rows ELSE RowsOf(cachedUnitsData, unit))
                          @@ cachedUnitsData
  /\ response' = None
  /\ UNCHANGED <<cachedLiveData, lastFetchTime, published>>

\* lines 218-228 for one unit: the download settles; a sheet is stored in
\* newData, a failure stores the unit's cached rows
LoadComplete(f, unit, load) ==
  /\ refreshes[f].pc = "loading"
  /\ unit \in refreshes[f].pending
  /\ refreshes' = [refreshes EXCEPT
                     ![f].pending = @ \ {unit},
                     ![f].failed = IF load.ok THEN @ ELSE @ \cup {unit},
                     ![f].newData = @ @@ (unit :> IF load.ok THEN load.rows
                                                  ELSE RowsOf(cachedUnitsData, unit))]
  /\ response' = None
  /\ UNCHANGED <<cachedUnitsData, cachedLiveData, lastFetchTime, published>>

\* a Promise.race in the place of Promise.all
firstSettled(f) == refreshes[f].pending # Units

\* allSettled waiting for the loads of every refresh, a barrier across calls
everySettled(f) == \A g \in RefreshIds : refreshes[g].pending = {}

\* Promise.all(...) of line 217 has settled
allSettled(f) == refreshes[f].pending = {}

\* the record of a refresh whose call has returned: kept while a handler
\* awaits it, forgotten otherwise
returned(r) == IF r.waiter = None THEN doneRefresh
               ELSE [r EXCEPT !.pc = "done", !.newData = <<>>, !.results = None]

\* line 230, reached when Promise.all settles; fetchAllUnitsData returns
Publish(f) ==
  /\ refreshes[f].pc = "loading"
  /\ allSettled(f)
  /\ cachedUnitsData' = refreshes[f].newData
  /\ published' = refreshes[f].newData
  /\ refreshes' = [refreshes EXCEPT ![f] = IF @.via = "update"
                                           THEN [@ EXCEPT !.pc = "fetched", !.newData = <<>>]
                                           ELSE returned(@)]
  /\ response' = None
  /\ UNCHANGED <<cachedLiveData, lastFetchTime>>

\* line 584: the default view is computed from the cache
ComputeLive(f) ==
  /\ refreshes[f].pc = "fetched"
  /\ refreshes' = [refreshes EXCEPT
                     ![f].pc = "computed",
                     ![f].results = Some(getQuantumData(cachedUnitsData, Absent, Absent, Absent, Absent, FALSE))]
  /\ response' = None
  /\ UNCHANGED <<cachedUnitsData, cachedLiveData, lastFetchTime, published>>

\* lines 585-586; updateQuantumLiveData returns
StoreLive(f) ==
  /\ refreshes[f].pc = "computed"
  /\ cachedLiveData' = refreshes[f].results
  /\ lastFetchTime' = lastFetchTime + 1
  /\ refreshes' = [refreshes EXCEPT ![f] = returned(@)]
  /\ response' = None
  /\ UNCHANGED <<cachedUnitsData, published>>

(***************************************************************************)
(* Request handlers.                                                       *)
(***************************************************************************)
\* line 595
isDashboardOf(q) == q.mode = "dashboard"
\* line 597
hasFilters(q) ==
  q.date # Absent \/ q.shift # Absent \/ q.unit # Absent \/ q.machine # Absent \/ isDashboardOf(q)

\* LiveFiltered giving the units it reads an entry in the cache, cachedUnitsData[unit] ||= []
LiveFilteredFillingIn(q) ==
  /\ hasFilters(q)
  /\ response' = sentAtOnce("live", q, 200,
                   getQuantumData(cachedUnitsData, q.date, q.shift, q.unit, q.machine, isDashboardOf(q)),
                   TRUE)
  /\ cachedUnitsData' = [u \in DOMAIN cachedUnitsData \cup Range(unitsOf(q.unit)) |->
                           RowsOf(cachedUnitsData, u)]
  /\ UNCHANGED <<cachedLiveData, lastFetchTime, refreshes, published>>

\* lines 597-599: GET /api/quantum/live with a filter or mode=dashboard
LiveFiltered(q) ==
  /\ hasFilters(q)
  /\ response' = sentAtOnce("live", q, 200,
                   getQuantumData(cachedUnitsData, q.date, q.shift, q.unit, q.machine, isDashboardOf(q)),
                   TRUE)
  /\ UNCHANGED <<cachedUnitsData, cachedLiveData, lastFetchTime, refreshes, published>>

\* LiveCached computing the default view anew from the unit cache
LiveCachedRecomputed(q) ==
  /\ ~hasFilters(q)
  /\ cachedLiveData # None
  /\ response' = sentAtOnce("live", q, 200,
                   getQuantumData(cachedUnitsData, Absent, Absent, Absent, Absent, FALSE), TRUE)
  /\ UNCHANGED <<cachedUnitsData, cachedLiveData, lastFetchTime, refreshes, published>>

\* lines 600-601: no filter, and a default view is cached
LiveCached(q) ==
  /\ ~hasFilters(q)
  /\ cachedLiveData # None
  /\ response' = sentAtOnce("live", q, 200, cachedLiveData[1], FALSE)
  /\ UNCHANGED <<cachedUnitsData, cachedLiveData, lastFetchTime, refreshes, published>>

\* lines 602-603: no filter and no default view: updateQuantumLiveData is awaited
LiveOnDemand(q) ==
  /\ ~hasFilters(q)
  /\ cachedLiveData = None
  /\ nextRefresh <= MaxRefreshes
  /\ refreshes' = [refreshes EXCEPT ![nextRefresh] = startedRefresh("update", handlerOf("live", q))]
  /\ response' = None
  /\ UNCHANGED <<cachedUnitsData, cachedLiveData, lastFetchTime, published>>

\* whether the handler of `route` awaits the refresh of slot f, which has returned
resumes(f, route) ==
  /\ refreshes[f].pc = "done"
  /\ refreshes[f].waiter # None
  /\ refreshes[f].waiter[1].route = route

\* line 604, after the awaited refresh
LiveResume(f) ==
  /\ resumes(f, "live")
  /\ response' = sentAfter(f, 200, IF cachedLiveData # None THEN cachedLiveData[1] ELSE <<>>, FALSE)
  /\ refreshes' = [refreshes EXCEPT ![f] = doneRefresh]
  /\ UNCHANGED <<cachedUnitsData, cachedLiveData, lastFetchTime, published>>

\* line 611 and line 689
cacheHasNoKeys == DOMAIN cachedUnitsData = {}

\* lines 608-640 with keys in the cache: GET /api/quantum/available-filters
FiltersNow(q) ==
  /\ ~cacheHasNoKeys
  /\ response' = sentAtOnce("filters", q, 200, availableFilters(cachedUnitsData, q.unit), TRUE)
  /\ UNCHANGED <<cachedUnitsData, cachedLiveData, lastFetchTime, refreshes, published>>

\* lines 611-613: the cache has no keys: fetchAllUnitsData is awaited
FiltersOnDemand(q) ==
  /\ cacheHasNoKeys
  /\ nextRefresh <= MaxRefreshes
  /\ refreshes' = [refreshes EXCEPT ![nextRefresh] = startedRefresh("fetch", handlerOf("filters", q))]
  /\ response' = None
  /\ UNCHANGED <<cachedUnitsData, cachedLiveData, lastFetchTime, published>>

\* lines 616-640, after the awaited fetch
FiltersResume(f) ==
  /\ resumes(f, "filters")
  /\ response' = sentAfter(f, 200, availableFilters(cachedUnitsData, refreshes[f].waiter[1].query.unit), TRUE)
  /\ refreshes' = [refreshes EXCEPT ![f] = doneRefresh]
  /\ UNCHANGED <<cachedUnitsData, cachedLiveData, lastFetchTime, published>>

\* lacksRequired with && in the place of ||
lacksBoth(q) == q.firstColumn = Absent /\ q.parameter = Absent

\* line 679
lacksRequired(q) == q.firstColumn = Absent \/ q.parameter = Absent

\* lines 679-681: GET /api/quantum/trend without firstColumn or parameter
TrendRejected(q) ==
  /\ lacksRequired(q)
  /\ response' = sentAtOnce("trend", q, 400, "firstColumn and parameter are required", FALSE)
  /\ UNCHANGED <<cachedUnitsData, cachedLiveData, lastFetchTime, refreshes, published>>

\* lines 688-856 with keys in the cache
TrendNow(q) ==
  /\ ~lacksRequired(q)
  /\ ~cacheHasNoKeys
  /\ response' = sentAtOnce("trend", q, 200, trendOf(cachedUnitsData, q), TRUE)
  /\ UNCHANGED <<cachedUnitsData, cachedLiveData, lastFetchTime, refreshes, published>>

\* lines 689-691: the cache has no keys: fetchAllUnitsData is awaited
TrendOnDemand(q) ==
  /\ ~lacksRequired(q)
  /\ cacheHasNoKeys
  /\ nextRefresh <= MaxRefreshes
  /\ refreshes' = [refreshes EXCEPT ![nextRefresh] = startedRefresh("fetch", handlerOf("trend", q))]
  /\ response' = None
  /\ UNCHANGED <<cachedUnitsData, cachedLiveData, lastFetchTime, published>>

\* lines 693-856, after the awaited fetch
TrendResume(f) ==
  /\ resumes(f, "trend")
  /\ response' = sentAfter(f, 200, trendOf(cachedUnitsData, refreshes[f].waiter[1].query), TRUE)
  /\ refreshes' = [refreshes EXCEPT ![f] = doneRefresh]
  /\ UNCHANGED <<cachedUnitsData, cachedLiveData, lastFetchTime, published>>

Next ==
  \/ \E f \in RefreshIds, unit \in Units, load \in Loads : LoadComplete(f, unit, load)
  \/ \E f \in RefreshIds : Publish(f)
  \/ \E f \in RefreshIds : ComputeLive(f)
  \/ \E f \in RefreshIds : StoreLive(f)
  \/ \E q \in LiveQueries : LiveFiltered(q)
  \/ \E q \in LiveQueries : LiveCached(q)
  \/ \E q \in LiveQueries : LiveOnDemand(q)
  \/ \E f \in RefreshIds : LiveResume(f)
  \/ \E q \in FilterQueries : FiltersNow(q)
  \/ \E q \in FilterQueries : FiltersOnDemand(q)
  \/ \E f \in RefreshIds : FiltersResume(f)
  \/ \E q \in TrendQueries : TrendRejected(q)
  \/ \E q \in TrendQueries : TrendNow(q)
  \/ \E q \in TrendQueries : TrendOnDemand(q)
  \/ \E f \in RefreshIds : TrendResume(f)
  \/ TimerTick

Spec == Init /\ [][Next]_vars

(***************************************************************************)
(* Scheduling.  Once Promise.all has settled, the continuation of          *)
(* fetchAllUnitsData is queued and the event loop runs it, and so for the  *)
(* continuations of updateQuantumLiveData after each await.  A download is *)
(* under no such obligation: it may never settle.                          *)
(***************************************************************************)
\* weak fairness of ComputeLive(f): the step is enabled exactly when f is at
\* "fetched" and every such step leaves "fetched", so WF_vars(ComputeLive(f))
\* is the formula below, which needs no ENABLED of the aggregation
fairComputeLive(f) == []<>(refreshes[f].pc # "fetched")

Fairness ==
  \A f \in RefreshIds :
    WF_vars(Publish(f)) /\ fairComputeLive(f) /\ WF_vars(StoreLive(f))

\* the downloads of the scheduling runs: an error, or the one-row sheet
FairLoads == {load \in Loads : Len(load.rows) <= 1}

\* the refreshes, the timer and the reads, over the downloads above
NextFair ==
  \/ \E f \in RefreshIds, unit \in Units, load \in FairLoads : LoadComplete(f, unit, load)
  \/ \E f \in RefreshIds : Publish(f)
  \/ \E f \in RefreshIds : ComputeLive(f)
  \/ \E f \in RefreshIds : StoreLive(f)
  \/ \E q \in LiveQueries : LiveFiltered(q)
  \/ \E q \in LiveQueries : LiveCached(q)
  \/ \E q \in LiveQueries : LiveOnDemand(q)
  \/ \E f \in RefreshIds : LiveResume(f)
  \/ \E q \in FilterQueries : FiltersNow(q)
  \/ \E q \in TrendQueries : TrendNow(q)
  \/ TimerTick

SpecFair == Init /\ [][NextFair]_vars /\ Fairness

(***************************************************************************)
(* The aggregation on its own: the startup refresh has just published a    *)
(* cache drawn from the row pool, the default view is computed and stored, *)
(* and live requests are answered from it.                                 *)
(***************************************************************************)
\* which unit, if any, holds each row of the pool
Placements == [1..Len(RowPool) -> Units \cup {"none"}]

\* the cache holding the rows as placed, each unit's in pool order
cacheOf(place) ==
  [u \in Units |-> LET mine == SelectSeq([i \in 1..Len(RowPool) |-> i], LAMBDA i : place[i] = u)
                   IN [k \in 1..Len(mine) |-> RowPool[mine[k]]]]

AggCaches ==
  {cacheOf(place) : place \in {pl \in Placements : Cardinality({i \in DOMAIN pl : pl[i] # "none"}) <= MaxRows}}

AggQueries ==
  {q \in [date : {Absent, DayNames[1], DayNames[2]}, shift : {Absent, "1", "2", "all"},
          unit : {Absent, "U-1"}, machine : {Absent, "M1"}, mode : {Absent, "dashboard"}] :
     hasFilters(q)}

InitAgg ==
  /\ cachedUnitsData \in AggCaches
  /\ published = cachedUnitsData
  /\ cachedLiveData = None
  /\ lastFetchTime = 0
  /\ response = None
  /\ refreshes = [f \in RefreshIds |->
                    IF f = 1 THEN [unusedRefresh EXCEPT !.pc = "fetched", !.via = "update"]
                    ELSE unusedRefresh]

\* one request is looked at per state of the cache
NextAgg ==
  \/ ComputeLive(1)
  \/ StoreLive(1)
  \/ response = None /\ \E q \in AggQueries : LiveFiltered(q)
  \/ response = None /\ LiveCached(noQuery)

SpecAgg == InitAgg /\ [][NextAgg]_vars

(***************************************************************************)
(* The trend computation on its own: a refresh has completed over a cache  *)
(* drawn from the row pool, and trend requests are answered from it.       *)
(***************************************************************************)
TrendAggQueries ==
  [group : {"quality", "cuts", "alarms", Absent},
   firstColumn : {"unit", "machinename"},
   parameter : {"CVAvg", "Thin50", "YarnFaults", "totalAlarms"},
   unit : {Absent, "U-1"}]

InitTrend ==
  /\ cachedUnitsData \in AggCaches
  /\ published = cachedUnitsData
  /\ cachedLiveData = Some(getQuantumData(cachedUnitsData, Absent, Absent, Absent, Absent, FALSE))
  /\ lastFetchTime = 1
  /\ response = None
  /\ refreshes = [f \in RefreshIds |-> IF f = 1 THEN doneRefresh ELSE unusedRefresh]

\* one request is looked at per state of the cache
NextTrend == response = None /\ \E q \in TrendAggQueries : TrendNow(q)

SpecTrend == InitTrend /\ [][NextTrend]_vars

(***************************************************************************)
(* Claims.                                                                 *)
(***************************************************************************)
\* C1: at most one refresh is in flight at any time: two runs of the
\* per-unit load fan-out never overlap.
C1_AtMostOneRefreshInFlight ==
  Cardinality({f \in RefreshIds : refreshes[f].pc = "loading"}) <= 1

\* C2: every single read of the unit cache (one getQuantumData call, one
\* available-filters computation, one trend computation) sees, for all
\* units, the rows of one published composite snapshot.
C2_ReadSeesOnePublishedSnapshot ==
  response # None /\ response[1].reads => response[1].seen = response[1].seenPublished

\* a read made while a refresh has loaded some of its units, with rows other
\* than the cache holds for them
C2_ReadDuringRefresh ==
  /\ response # None /\ response[1].reads
  /\ DOMAIN response[1].seen = Units
  /\ \E f \in RefreshIds :
       /\ refreshes[f].pc = "loading"
       /\ refreshes[f].pending \notin {{}, Units}
       /\ \E u \in DOMAIN refreshes[f].newData : refreshes[f].newData[u] # response[1].seen[u]

\* C3: when a refresh publishes, each unit whose load failed keeps the
\* snapshot it had in the cache, each other unit gets its newly loaded rows,
\* and when the refresh returns lastFetchTime has advanced.
C3_FailedUnitsKeepSnapshot ==
  [][\A f \in RefreshIds :
       /\ (refreshes[f].pc = "loading" /\ refreshes'[f].pc # "loading") =>
            /\ \A u \in refreshes[f].failed : RowsOf(cachedUnitsData', u) = RowsOf(cachedUnitsData, u)
            /\ \A u \in Units \ refreshes[f].failed : RowsOf(cachedUnitsData', u) = refreshes[f].newData[u]
       /\ (refreshes[f].pc \in {"loading", "fetched", "computed"} /\ refreshes'[f].pc = "done") =>
            lastFetchTime' > lastFetchTime]_vars

\* C4: whenever no refresh is in progress, cachedLiveData is either unset
\* together with an empty unit cache or the unfiltered getQuantumData()
\* over the current cachedUnitsData.
C4_DefaultViewMatchesCache ==
  (\A f \in RefreshIds : refreshes[f].pc \in {"unused", "done"}) =>
    \/ cachedLiveData = None /\ holdsNoRows(cachedUnitsData)
    \/ /\ cachedLiveData # None
       /\ cachedLiveData[1] = getQuantumData(cachedUnitsData, Absent, Absent, Absent, Absent, FALSE)

\* C5: every read request served from the shared cache that arrives while
\* the cache holds no unit rows runs a refresh before it is answered.
C5_EmptyCacheReadRefreshes ==
  response # None /\ response[1].status # 400 /\ response[1].emptyOnArrival
    => response[1].refreshed

\* C6: a request that found the cache empty and whose on-demand refresh saw
\* every unit load fail is answered with a server error.
C6_AllLoadsFailedIsServerError ==
  response # None /\ response[1].emptyOnArrival /\ response[1].refreshed /\ response[1].allFailed
    => response[1].status >= 500

\* C7: a refresh replaces cachedUnitsData only when all its unit loads have
\* settled: no refresh is past its publication with a load pending, and the
\* cache never holds some units' entries without the others'.
C7_PublishAfterAllLoads ==
  /\ \A f \in RefreshIds : refreshes[f].pc \notin {"unused", "loading"} => refreshes[f].pending = {}
  /\ DOMAIN cachedUnitsData \in {{}, Units}

\* a refresh that has published after one load failed and another succeeded
C7_PublishedAfterMixedLoads ==
  \E f \in RefreshIds : refreshes[f].pc = "fetched" /\ refreshes[f].failed \notin {{}, Units}

\* a cache without the rows of YarnLength < 300
withoutShortRows(cache) ==
  [u \in DOMAIN cache |-> SelectSeq(cache[u], LAMBDA item : yarnLengthOf(item) >= 300)]

\* C8: getQuantumData returns the same result as on the snapshot with all
\* rows of YarnLength < 300 removed, whatever the arguments.
C8_ShortRowsNeverInfluence ==
  response # None /\ response[1].route = "live" /\ response[1].reads =>
    LET q == response[1].query
    IN response[1].body =
         getQuantumData(withoutShortRows(response[1].seen), q.date, q.shift, q.unit, q.machine,
                        isDashboardOf(q))

\* C9: when a target date is resolved, the latestShift of each non-empty
\* unit aggregate is the largest shift among the pooled rows of the relevant
\* units on that date, whether or not a shift filter was given.
C9_LatestShiftIsLargestOnDate ==
  response # None /\ response[1].route = "live" /\ response[1].reads =>
    LET q == response[1].query
        pooled == allRecordsOf(response[1].seen, unitsOf(q.unit))
    IN \A i \in 1..Len(response[1].body) :
         LET r == response[1].body[i]
         IN (RowsOf(response[1].seen, r.unit) # <<>> /\ r.shiftStartTime # JsNull
               /\ shiftsForDate(pooled, r.shiftStartTime[2]) # {})
              => r.latestShift = JsNum(SetMax(shiftsForDate(pooled, r.shiftStartTime[2])))

\* C10: every unit whose filtered row set is empty, whether the unit holds
\* no rows or none of its rows passes the filters, gets the empty aggregate:
\* fault rate "N/A", zeroed counters, no articles.
C10_EmptyAggregate ==
  response # None /\ response[1].route = "live" /\ response[1].reads =>
    LET q == response[1].query
        t == resolveTargets(response[1].seen, q.date, q.shift, q.unit, isDashboardOf(q))
    IN \A i \in 1..Len(response[1].body) :
         LET r == response[1].body[i]
         IN recordsOf(RowsOf(response[1].seen, r.unit), t.targetDateStr, t.targetShift, q.machine) = <<>>
              => /\ r.yarnFaults = JsStr("N/A")
                 /\ r.articles = <<>>
                 /\ "totalAlarms" \in DOMAIN r => r.totalAlarms = 0 /\ r.totalCuts = 0

\* the calendar days, as numbers, of the rows with a readable date
daysOf(rows) ==
  {FirstDate(rows[i], dateKeys) \div 2 : i \in {j \in 1..Len(rows) : itemDateStr(rows[j]) # NoDate}}

\* C11: without a date filter the target date is the most recent distinct
\* row date of the pooled rows of the relevant units, in dashboard mode the
\* second most recent (the most recent when there is only one); a date
\* given explicitly is the target date.
C11_DefaultDateIsLatestOrDayBefore ==
  response # None /\ response[1].route = "live" /\ response[1].reads =>
    LET q == response[1].query
        days == daysOf(allRecordsOf(response[1].seen, unitsOf(q.unit)))
        expected == IF q.date # Absent THEN JsStr(q.date)
                    ELSE IF days = {} THEN JsNull
                    ELSE IF isDashboardOf(q) /\ Cardinality(days) >= 2
                    THEN JsStr(DayNames[SetMax(days \ {SetMax(days)})])
                    ELSE JsStr(DayNames[SetMax(days)])
    IN \A i \in 1..Len(response[1].body) :
         RowsOf(response[1].seen, response[1].body[i].unit) # <<>>
           => response[1].body[i].shiftStartTime = expected

\* a dashboard request without a date answered over rows of two days
C11_DashboardOverTwoDays ==
  /\ response # None /\ response[1].route = "live" /\ response[1].reads
  /\ response[1].query.date = Absent /\ isDashboardOf(response[1].query)
  /\ Cardinality(daysOf(allRecordsOf(response[1].seen, unitsOf(response[1].query.unit)))) >= 2
  /\ \E i \in 1..Len(response[1].body) :
       RowsOf(response[1].seen, response[1].body[i].unit) # <<>>

\* a cache whose rows have lost their shift cells
withoutShiftCells(cache) ==
  [u \in DOMAIN cache |->
     [i \in 1..Len(cache[u]) |->
        [k \in DOMAIN cache[u][i] \ Range(shiftKeys) |-> cache[u][i][k]]]]

\* whether a row passes the date, machine and length conditions; `date` is
\* the target date as the aggregate reports it
passesButShift(item, date, machine) ==
  /\ itemDateStr(item) # NoDate
  /\ date # JsNull => JsStr(itemDateStr(item)) = date
  /\ machine # Absent => rowMachStr(item) = machine
  /\ yarnLengthOf(item) >= 300

\* C12: with shiftFilter = "all" no shift narrowing is applied: the shift in
\* force is reported as 'All', each unit aggregate counts exactly the rows
\* passing the date, machine and YarnLength >= 300 conditions, and apart
\* from latestShift the result does not depend on the rows' shift cells.
C12_ShiftAllAppliesNoNarrowing ==
  response # None /\ response[1].route = "live" /\ response[1].reads
    /\ response[1].query.shift = "all" =>
    LET q == response[1].query
        blind == getQuantumData(withoutShiftCells(response[1].seen), q.date, q.shift, q.unit,
                                q.machine, isDashboardOf(q))
    IN \A i \in 1..Len(response[1].body) :
         LET r == response[1].body[i]
             rows == RowsOf(response[1].seen, r.unit)
             counted == SelectSeq(rows, LAMBDA item : passesButShift(item, r.shiftStartTime, q.machine))
         IN /\ [r EXCEPT !.latestShift = JsNull] = [blind[i] EXCEPT !.latestShift = JsNull]
            /\ rows # <<>> =>
                 /\ r.shiftNumber = JsStr("All")
                 /\ r.totalCuts = SumSeq([k \in 1..Len(counted) |->
                                            NumOr(counted[k], <<"Cuts", "cuts", "TotalCuts", "totalcuts">>)])
                 /\ Len(r.articles) = Cardinality({artNumOf(counted[k]) : k \in 1..Len(counted)})

\* a request with shift=all answered over a unit with counted rows of two shifts
C12_AllOverTwoShifts ==
  /\ response # None /\ response[1].route = "live" /\ response[1].reads
  /\ response[1].query.shift = "all"
  /\ \E i \in 1..Len(response[1].body) :
       LET r == response[1].body[i]
           rows == RowsOf(response[1].seen, r.unit)
       IN \E a, b \in 1..Len(rows) :
            /\ passesButShift(rows[a], r.shiftStartTime, response[1].query.machine)
            /\ passesButShift(rows[b], r.shiftStartTime, response[1].query.machine)
            /\ rowShiftStr(rows[a]) # rowShiftStr(rows[b])

\* the rows the aggregate of `unit` in the response counts
countedRows(unit) ==
  LET q == response[1].query
      t == resolveTargets(response[1].seen, q.date, q.shift, q.unit, isDashboardOf(q))
  IN recordsOf(RowsOf(response[1].seen, unit), t.targetDateStr, t.targetShift, q.machine)

\* whether the accumulators of `parts` add up to those of `whole`: yarn
\* length, every cut column, every alarm column and the alarm total
addsUp(parts, whole) ==
  LET idx == 1..Len(parts)
  IN /\ SumSeq([i \in idx |-> parts[i].acc.yarnLength]) = whole.yarnLength
     /\ \A c \in Range(cutColumns) : SumSeq([i \in idx |-> parts[i].acc.cuts[c]]) = whole.cuts[c]
     /\ \A c \in Range(alarmColumns) :
          SumSeq([i \in idx |-> parts[i].acc.alarmBreakdown[c]]) = whole.alarmBreakdown[c]
     /\ SumSeq([i \in idx |-> parts[i].acc.totalAlarms]) = whole.totalAlarms

C14_TrendRejectedBeforeComputation ==
  [][(/\ response' # None
      /\ response'[1].route = "trend"
      /\ (response'[1].query.firstColumn = Absent \/ response'[1].query.parameter = Absent))
       => /\ response'[1].status = 400
          /\ ~response'[1].refreshed
          /\ ~response'[1].reads
          /\ UNCHANGED <<cachedUnitsData, cachedLiveData, lastFetchTime, refreshes>>]_vars

\* such a request rejected while the cache holds nothing
C14_RejectedOnEmptyCache ==
  /\ response # None /\ response[1].route = "trend" /\ response[1].status = 400
  /\ response[1].emptyOnArrival
  /\ cachedUnitsData = <<>>

\* C15: a live request with no date, shift, unit or machine and a mode other
\* than dashboard, arriving when a default view is cached, is answered with
\* the stored cachedLiveData: nothing is computed from the unit cache, no
\* refresh is started, and cachedUnitsData, cachedLiveData and lastFetchTime
\* stay as they are.
C15_CachedDefaultViewServedAsIs ==
  [][(/\ cachedLiveData # None
      /\ response' # None
      /\ response'[1].route = "live"
      /\ ~response'[1].refreshed
      /\ response'[1].query.date = Absent /\ response'[1].query.shift = Absent
      /\ response'[1].query.unit = Absent /\ response'[1].query.machine = Absent
      /\ response'[1].query.mode # "dashboard")
       => /\ response'[1].status = 200
          /\ response'[1].body = cachedLiveData[1]
          /\ ~response'[1].reads
          /\ UNCHANGED <<cachedUnitsData, cachedLiveData, lastFetchTime, refreshes>>]_vars

\* such a request answered from a stored view that the unit cache has since
\* moved away from
C15_ServedStoredView ==
  /\ response # None /\ response[1].route = "live" /\ ~response[1].refreshed
  /\ response[1].query = [noQuery EXCEPT !.mode = "home"]
  /\ cachedLiveData # None /\ response[1].body = cachedLiveData[1]
  /\ cachedLiveData[1] # getQuantumData(cachedUnitsData, Absent, Absent, Absent, Absent, FALSE)

\* C16: in a trend response, the value of a machine nested in the row of a
\* date under a label equals the value the label's drill-down holds for
\* that date and machine; a machine that is the only one of its bucket has
\* the label's own value (same accumulator, same formula); and the
\* drill-down holds no value for a machine without rows on that date.
C16_DrillDownParity ==
  response # None /\ response[1].route = "trend" /\ response[1].status = 200 =>
    LET body == response[1].body
    IN \A k \in 1..Len(body.data) : \A l \in body.labels :
         LET row == body.data[k]
             drill == body.drillDownData[l].data[k]
             here == IF l \in DOMAIN row.machines THEN DOMAIN row.machines[l] ELSE {}
         IN /\ drill.date = row.date
            /\ \A m \in body.drillDownData[l].labels :
                 IF m \in here THEN drill.values[m] = row.machines[l][m]
                 ELSE drill.values[m] = JsNull
            /\ here \subseteq body.drillDownData[l].labels
            /\ \A m \in here : here = {m} => row.machines[l][m] = row.values[l]

\* a trend response of a rate group with two machines in one bucket and a
\* machine of the label that has no rows on some date
C16_TwoMachinesInBucket ==
  /\ response # None /\ response[1].route = "trend" /\ response[1].status = 200
  /\ response[1].query.group \in {"quality", "cuts"}
  /\ \E k \in 1..Len(response[1].body.data) : \E l \in response[1].body.labels :
       /\ l \in DOMAIN response[1].body.data[k].machines
       /\ Cardinality(DOMAIN response[1].body.data[k].machines[l]) >= 2
       /\ \E m \in DOMAIN response[1].body.data[k].machines[l] :
            response[1].body.data[k].machines[l][m] # <<"fixed2", 0>>

\* C17: cachedUnitsData always is the empty map of startup or a map with an
\* entry for every unit, and it changes only by the whole-map replacement
\* that ends a refresh's loading: no step that answers a request and no
\* other step of a refresh changes it.
C17_CacheReplacedWholesaleOnly ==
  [][/\ DOMAIN cachedUnitsData \in {{}, Units}
     /\ DOMAIN cachedUnitsData' \in {{}, Units}
     /\ cachedUnitsData' # cachedUnitsData =>
          /\ response' = None
          /\ DOMAIN cachedUnitsData' = Units
          /\ \E f \in RefreshIds :
               /\ refreshes[f].pc = "loading" /\ refreshes[f].pending = {}
               /\ refreshes'[f].pc # "loading"
               /\ cachedUnitsData' = refreshes[f].newData]_vars

\* the cache replaced a second time, by a refresh started on demand, with
\* rows in it
C17_ReplacedAgain ==
  /\ refreshes[1].pc = "done"
  /\ refreshes[2].pc = "fetched" /\ refreshes[2].waiter # None
  /\ DOMAIN cachedUnitsData = Units /\ ~holdsNoRows(cachedUnitsData)

\* C18: once a refresh has published, no refresh started before it
\* publishes: the cache is always that of the latest-started refresh among
\* those that have published.
C18_NoStaleOverwrite ==
  [][\A f \in RefreshIds :
       (refreshes[f].pc = "loading" /\ refreshes'[f].pc # "loading") =>
         \A g \in RefreshIds : g > f => refreshes[g].pc \in {"unused", "loading"}]_vars

\* C19: a refresh whose unit loads have all completed eventually publishes,
\* and one run through updateQuantumLiveData eventually stores the default
\* view and advances lastFetchTime, also in the behaviours where a load of
\* another refresh never completes.
C19_RefreshCompletes ==
  \A f \in RefreshIds :
       /\ (refreshes[f].pc = "loading" /\ refreshes[f].pending = {}) ~> (refreshes[f].pc # "loading")
       /\ \A n \in 0..MaxRefreshes :
            (refreshes[f].pc = "fetched" /\ lastFetchTime = n)
              ~> (refreshes[f].pc = "done" /\ lastFetchTime > n /\ cachedLiveData # None)

\* a later refresh has published and stored its view, and a read has been
\* answered from it, while a load of the startup refresh is still outstanding
C19_StoredPastOutstandingLoad ==
  /\ refreshes[1].pc = "loading" /\ refreshes[1].pending # {}
  /\ refreshes[2].pc = "done"
  /\ lastFetchTime >= 1 /\ cachedLiveData # None
  /\ response # None /\ response[1].route = "live" /\ response[1].status = 200
====
